---------------------------- MODULE Spec2Model ----------------------------
(***************************************************************************)
(* A model of the RPC-documentation scraper: src/index.ts (variant "A")    *)
(* and src/unnamed/part_000 (variant "B", which also captures the          *)
(* description, the response sample and a category -> names index).        *)
(*                                                                         *)
(* Text is modelled as a sequence of UTF-16 code units (naturals), so that *)
(* the regular-expression replace, toLowerCase, includes, slice, trim and  *)
(* JSON.parse are computed on characters as the code computes them.        *)
(* An optional DOM element (the [0] of a live collection, which is          *)
(* undefined when the collection is empty) is a sequence of length 0 or 1. *)
(***************************************************************************)
EXTENDS Integers, Sequences, FiniteSets, TLC

VARIABLES
    variant,          \* "A" = src/index.ts, "B" = src/unnamed/part_000
    page,             \* the method sections of the page behind the URL
    fetchOk,          \* whether axios.get / new JSDOM succeeded
    pc,               \* position of runMain/main
    idx,              \* number of method sections the for-of loop has visited
    methods,          \* const methods = Array<any>()
    categoryMap,      \* const categoryMap = {}
    categoryNameMap,  \* const categoryNameMap = {}   (variant B only)
    log,              \* console.log / console.error lines, in order
    files,            \* what fs.writeFileSync has written
    exitCode,         \* the argument of process.exit, <<>> while running
    arg,              \* input of the pure function under check
    ret               \* its result, <<>> before the call

vars ==
    <<variant, page, fetchOk, pc, idx, methods, categoryMap, categoryNameMap,
      log, files, exitCode, arg, ret>>

pipelineVars ==
    <<variant, page, fetchOk, pc, idx, methods, categoryMap, categoryNameMap,
      log, files, exitCode>>

(***************************************************************************)
(* Bounds of the model.                                                    *)
(***************************************************************************)
\* method sections on a page
MaxSections == 3
\* words concatenated into a method name handed to getCategory
MaxWords == 2
\* code units in a text handed to the sanitizer
MaxLen == 3
\* field nodes below one parameter node
MaxFields == 3

(***************************************************************************)
(* Optional values and small helpers.                                      *)
(***************************************************************************)
None == <<>>

Some(x) == <<x>>

Range(s) == {s[k] : k \in 1..Len(s)}

Min(a, b) == IF a <= b THEN a ELSE b

Max(a, b) == IF a >= b THEN a ELSE b

\* all sequences over S of length at most n
SeqUpTo(S, n) == UNION {[1..k -> S] : k \in 0..n}

\* F applied to the value of e: LET x == e IN F(x), with e evaluated once
Bind(e, F(_)) == CHOOSE r \in {F(x) : x \in {e}} : TRUE

RECURSIVE Flatten(_)
\* concatenation of a sequence of sequences
Flatten(ss) == IF ss = <<>> THEN <<>> ELSE Head(ss) \o Flatten(Tail(ss))

(***************************************************************************)
(* String.prototype operations on code-unit sequences.                     *)
(***************************************************************************)
\* String.prototype.toLowerCase on one code unit (ASCII and Latin-1 letters)
LowerUnit(c) ==
    IF c \in 65..90 THEN c + 32
    ELSE IF c \in 192..222 /\ c # 215 THEN c + 32
    ELSE c

\* String.prototype.toLowerCase
ToLowerCase(s) == [k \in 1..Len(s) |-> LowerUnit(s[k])]

\* String.prototype.includes
Includes(s, sub) ==
    \E k \in 1..(Len(s) - Len(sub) + 1) : SubSeq(s, k, k + Len(sub) - 1) = sub

\* The character class [\u0000-\u001F\u007F-\u009F-\u200B]: the range
\* 0000-001F, the range 007F-009F, then (a '-' that follows a complete range
\* is a literal) the hyphen-minus 002D, and 200B.
InSanitizeClass(c) == c \in 0..31 \/ c \in 127..159 \/ c = 45 \/ c = 8203

KeptBySanitize(c) == ~InSanitizeClass(c)

\* text.replace(/[\u0000-\u001F\u007F-\u009F-\u200B]/g, "")
Sanitize(s) == SelectSeq(s, KeptBySanitize)

\* WhiteSpace and LineTerminator of ECMAScript: what trim() strips and \s matches
IsJsSpace(c) ==
    c \in {9, 10, 11, 12, 13, 32, 160, 5760, 8232, 8233, 8239, 8287, 12288, 65279}
    \/ c \in 8192..8202

NotJsSpace(c) == ~IsJsSpace(c)

RECURSIVE TrimStart(_)
TrimStart(s) ==
    IF s # <<>> /\ IsJsSpace(Head(s)) THEN TrimStart(Tail(s)) ELSE s

RECURSIVE TrimEnd(_)
TrimEnd(s) ==
    IF s # <<>> /\ IsJsSpace(s[Len(s)]) THEN TrimEnd(SubSeq(s, 1, Len(s) - 1)) ELSE s

\* String.prototype.trim
Trim(s) == TrimEnd(TrimStart(s))

\* text.replace(/\s/g, "")
StripWhitespace(s) == SelectSeq(s, NotJsSpace)

RECURSIVE IndexFrom(_, _, _)
IndexFrom(s, c, k) ==
    IF k > Len(s) THEN -1
    ELSE IF s[k] = c THEN k - 1
    ELSE IndexFrom(s, c, k + 1)

\* String.prototype.indexOf of a one-character pattern: 0-based, -1 if absent
IndexOf(s, c) == IndexFrom(s, c, 1)

\* String.prototype.slice(start, end) with 0-based, possibly negative, indices
Slice(s, start, end) ==
    LET from == IF start < 0 THEN Max(Len(s) + start, 0) ELSE Min(start, Len(s))
        to == IF end < 0 THEN Max(Len(s) + end, 0) ELSE Min(end, Len(s))
    IN SubSeq(s, from + 1, to)

\* String.prototype.substring(start, end): clamps to 0..length and swaps
Substring(s, start, end) ==
    LET a == Min(Max(start, 0), Len(s))
        b == Min(Max(end, 0), Len(s))
    IN SubSeq(s, Min(a, b) + 1, Max(a, b))

\* function removeAt(index, s)
removeAt(index, s) ==
    Substring(s, 0, index) \o Substring(s, index + 1, Len(s))

(***************************************************************************)
(* enum MethodCategory and getCategory, one per variant.                   *)
(***************************************************************************)
\* the code units of 'block'
kwBlock ==
    <<98, 108, 111, 99, 107>>

\* the code units of 'epoch'
kwEpoch ==
    <<101, 112, 111, 99, 104>>

\* the code units of 'fee'
kwFee ==
    <<102, 101, 101>>

\* the code units of 'transaction'
kwTransaction ==
    <<116, 114, 97, 110, 115, 97, 99, 116, 105, 111, 110>>

\* the code units of 'program'
kwProgram ==
    <<112, 114, 111, 103, 114, 97, 109>>

\* the code units of 'token'
kwToken ==
    <<116, 111, 107, 101, 110>>

\* the code units of 'account'
kwAccount ==
    <<97, 99, 99, 111, 117, 110, 116>>

\* the code units of 'slot'
kwSlot ==
    <<115, 108, 111, 116>>

\* the code units of 'stake'
kwStake ==
    <<115, 116, 97, 107, 101>>

\* the code units of 'inflation'
kwInflation ==
    <<105, 110, 102, 108, 97, 116, 105, 111, 110>>

\* enum MethodCategory of src/index.ts (the values, as written to the output)
MethodCategoryA ==
    {"Program", "Token", "Account", "Transaction", "Block", "Epoch", "Fee",
     "Miscellaneous"}

\* enum MethodCategory of src/unnamed/part_000
MethodCategoryB ==
    {"Accounts", "Transaction", "Block", "Inflation", "Slot", "Stake", "Epoch",
     "Fee", "Token", "Miscellaneous"}

MethodCategory(v) == IF v = "A" THEN MethodCategoryA ELSE MethodCategoryB

\* getCategory of src/index.ts, account tested before token
getCategoryA_AccountFirst(methodName) ==
    IF Includes(ToLowerCase(methodName), kwBlock) THEN "Block"
    ELSE IF Includes(ToLowerCase(methodName), kwEpoch) THEN "Epoch"
    ELSE IF Includes(ToLowerCase(methodName), kwFee) THEN "Fee"
    ELSE IF Includes(ToLowerCase(methodName), kwTransaction) THEN "Transaction"
    ELSE IF Includes(ToLowerCase(methodName), kwProgram) THEN "Program"
    ELSE IF Includes(ToLowerCase(methodName), kwAccount) THEN "Account"
    ELSE IF Includes(ToLowerCase(methodName), kwToken) THEN "Token"
    ELSE "Miscellaneous"

\* getCategory of src/index.ts
getCategoryA(methodName) ==
    IF Includes(ToLowerCase(methodName), kwBlock) THEN "Block"
    ELSE IF Includes(ToLowerCase(methodName), kwEpoch) THEN "Epoch"
    ELSE IF Includes(ToLowerCase(methodName), kwFee) THEN "Fee"
    ELSE IF Includes(ToLowerCase(methodName), kwTransaction) THEN "Transaction"
    ELSE IF Includes(ToLowerCase(methodName), kwProgram) THEN "Program"
    ELSE IF Includes(ToLowerCase(methodName), kwToken) THEN "Token"
    ELSE IF Includes(ToLowerCase(methodName), kwAccount) THEN "Account"
    ELSE "Miscellaneous"

\* getCategory of src/unnamed/part_000
getCategoryB(m) ==
    LET methodName == ToLowerCase(m)
    IN IF Includes(methodName, kwBlock) THEN "Block"
       ELSE IF Includes(methodName, kwSlot) THEN "Slot"
       ELSE IF Includes(methodName, kwEpoch) THEN "Epoch"
       ELSE IF Includes(methodName, kwStake) THEN "Stake"
       ELSE IF Includes(methodName, kwInflation) THEN "Inflation"
       ELSE IF Includes(methodName, kwFee) THEN "Fee"
       ELSE IF Includes(methodName, kwToken) THEN "Token"
       ELSE IF Includes(methodName, kwTransaction) THEN "Transaction"
       ELSE IF Includes(methodName, kwAccount) THEN "Accounts"
       ELSE "Miscellaneous"

getCategory(v, methodName) ==
    IF v = "A" THEN getCategoryA(methodName) ELSE getCategoryB(methodName)

(***************************************************************************)
(* The rule order of each getCategory, as a table: keyword, category.      *)
(***************************************************************************)
\* the order of the if-chain of src/index.ts
RulesA ==
    << <<kwBlock, "Block">>, <<kwEpoch, "Epoch">>, <<kwFee, "Fee">>,
       <<kwTransaction, "Transaction">>, <<kwProgram, "Program">>,
       <<kwToken, "Token">>, <<kwAccount, "Account">> >>

\* the order of the if-chain of src/unnamed/part_000
RulesB ==
    << <<kwBlock, "Block">>, <<kwSlot, "Slot">>, <<kwEpoch, "Epoch">>,
       <<kwStake, "Stake">>, <<kwInflation, "Inflation">>, <<kwFee, "Fee">>,
       <<kwToken, "Token">>, <<kwTransaction, "Transaction">>,
       <<kwAccount, "Accounts">> >>

Rules(v) == IF v = "A" THEN RulesA ELSE RulesB

(***************************************************************************)
(* The state of the pipeline while a pure function is checked on its own.  *)
(***************************************************************************)
PipelineIdle ==
    /\ page = <<>>
    /\ fetchOk = FALSE
    /\ pc = "idle"
    /\ idx = 0
    /\ methods = <<>>
    /\ categoryMap = <<>>
    /\ categoryNameMap = <<>>
    /\ log = <<>>
    /\ files = <<>>
    /\ exitCode = None

(***************************************************************************)
(* getCategory on its own: names are concatenations of words that hold the *)
(* keywords in several cases, whole and split across two words.            *)
(***************************************************************************)
\* the code units of 'get'
wGet ==
    <<103, 101, 116>>

\* the code units of 'Token'
wToken ==
    <<84, 111, 107, 101, 110>>

\* the code units of 'Accounts'
wAccounts ==
    <<65, 99, 99, 111, 117, 110, 116, 115>>

\* the code units of 'ByOwner'
wByOwner ==
    <<66, 121, 79, 119, 110, 101, 114>>

\* the code units of 'Block'
wBlock ==
    <<66, 108, 111, 99, 107>>

\* the code units of 'SLOT'
wSlot ==
    <<83, 76, 79, 84>>

\* the code units of 'Epoch'
wEpoch ==
    <<69, 112, 111, 99, 104>>

\* the code units of 'fee'
wFee ==
    <<102, 101, 101>>

\* the code units of 'Transaction'
wTransaction ==
    <<84, 114, 97, 110, 115, 97, 99, 116, 105, 111, 110>>

\* the code units of 'Program'
wProgram ==
    <<80, 114, 111, 103, 114, 97, 109>>

\* the code units of 'Stake'
wStake ==
    <<83, 116, 97, 107, 101>>

\* the code units of 'Inflation'
wInflation ==
    <<73, 110, 102, 108, 97, 116, 105, 111, 110>>

\* the code units of 'Balance'
wBalance ==
    <<66, 97, 108, 97, 110, 99, 101>>

\* the code units of 'Tok'
wTok ==
    <<84, 111, 107>>

\* the code units of 'en'
wEn ==
    <<101, 110>>

\* the code units of 'getTokenAccountsByOwner'
getTokenAccountsByOwner ==
    <<103, 101, 116, 84, 111, 107, 101, 110, 65, 99, 99, 111, 117, 110, 116, 115, 66, 121, 79, 119, 110, 101, 114>>

Words ==
    {wGet, wToken, wAccounts, wByOwner, wBlock, wSlot, wEpoch, wFee,
     wTransaction, wProgram, wStake, wInflation, wBalance, wTok, wEn}

MethodNames ==
    {Flatten(ws) : ws \in SeqUpTo(Words, MaxWords)} \cup {getTokenAccountsByOwner}

InitClassify ==
    /\ variant \in {"A", "B"}
    /\ arg \in MethodNames
    /\ ret = None
    /\ PipelineIdle

\* const category = getCategory(methodName)
Classify ==
    /\ pc = "idle"
    /\ ret = None
    /\ ret' = Some(getCategory(variant, arg))
    /\ UNCHANGED <<pipelineVars, arg>>

NextClassify == Classify

SpecClassify == InitClassify /\ [][NextClassify]_vars

(***************************************************************************)
(* The sanitizing replace on its own, on every text of at most MaxLen code *)
(* units over an alphabet with members of each class of character.         *)
(***************************************************************************)
\* NUL, TAB, US, space, hyphen-minus, 'a', DEL, APC, no-break space, ZWSP
SanitizeAlphabet == {0, 9, 31, 32, 45, 97, 127, 159, 160, 8203}

InitSanitize ==
    /\ variant \in {"A", "B"}
    /\ arg \in SeqUpTo(SanitizeAlphabet, MaxLen)
    /\ ret = None
    /\ PipelineIdle

\* textContent?.replace(/[...]/g, "")
ApplySanitize ==
    /\ pc = "idle"
    /\ ret = None
    /\ ret' = Some(Sanitize(arg))
    /\ UNCHANGED <<pipelineVars, arg>>

NextSanitize == ApplySanitize

SpecSanitize == InitSanitize /\ [][NextSanitize]_vars

(***************************************************************************)
(* Claims about the pure functions.                                        *)
(***************************************************************************)
\* the category of the first rule, in table order, whose keyword occurs
FirstMatch(rules, lowered) ==
    LET hits == {k \in 1..Len(rules) : Includes(lowered, rules[k][1])}
    IN IF hits = {} THEN "Miscellaneous"
       ELSE rules[CHOOSE k \in hits : \A j \in hits : k <= j][2]

\* C8: getCategory returns, for every method name, the category of the first
\* keyword in the variant's rule order that occurs in the lower-cased name,
\* Miscellaneous when none occurs, always one category of the variant's enum,
\* and Token for "getTokenAccountsByOwner" in both variants.
C8_FirstMatchClassifier ==
    ret # None =>
        /\ ret[1] = FirstMatch(Rules(variant), ToLowerCase(arg))
        /\ ret[1] \in MethodCategory(variant)
        /\ (arg = getTokenAccountsByOwner => ret[1] = "Token")

C8_Witness ==
    /\ arg = getTokenAccountsByOwner
    /\ variant = "A"
    /\ ret = Some("Token")

\* a C0/C1 control character or the zero-width space
IsControlOrZwsp(c) == c \in 0..31 \/ c \in 127..159 \/ c = 8203

NotControlOrZwsp(c) == ~IsControlOrZwsp(c)

\* C9: the sanitizer removes exactly the C0/C1 control characters and the
\* zero-width space; every other character, the hyphen included, is preserved
\* verbatim and in order.
C9_RemovesExactlyControlsAndZwsp ==
    ret # None => ret[1] = SelectSeq(arg, NotControlOrZwsp)

(***************************************************************************)
(* The parameter extractor: the body of `for (const param of               *)
(* paramsSection)`, the same text in both files.                           *)
(*                                                                         *)
(* A parameter node (class Parameter_p8dk) is                              *)
(*   header   : None when it has no ParameterHeader_UUsJ element, else     *)
(*              Some(None) when the header has no <code>, else             *)
(*              Some(Some(text)) with the <code>'s textContent;            *)
(*   ownFlags : the texts of its FlagItem_qZK_ elements outside any field; *)
(*   fields   : its Field_MIDZ nodes, in document order.                   *)
(* A field node is                                                         *)
(*   name  : the textContent of its first ParameterName_c9Z4, if any;      *)
(*   code  : the textContent of its first <code>, if any;                  *)
(*   flags : the texts of its FlagItem_qZK_ elements.                      *)
(* getElementsByClassName returns descendants in document order; the       *)
(* parameter's own flags (in its header) precede those of its fields.      *)
(***************************************************************************)
\* the code units of 'required'
txtRequired ==
    <<114, 101, 113, 117, 105, 114, 101, 100>>

\* the code units of 'optional'
txtOptional ==
    <<111, 112, 116, 105, 111, 110, 97, 108>>

\* the code units of 'object'
txtObject ==
    <<111, 98, 106, 101, 99, 116>>

\* the code units of 'string'
txtString ==
    <<115, 116, 114, 105, 110, 103>>

\* the code units of ' object\n'
txtObjectPadded ==
    <<32, 111, 98, 106, 101, 99, 116, 10>>

\* the code units of 'commitment'
txtCommitment ==
    <<99, 111, 109, 109, 105, 116, 109, 101, 110, 116>>

\* the code units of 'encoding'
txtEncoding ==
    <<101, 110, 99, 111, 100, 105, 110, 103>>

\* the code units of 'limit'
txtLimit ==
    <<108, 105, 109, 105, 116>>

\* the code units of 'usize'
txtUsize ==
    <<117, 115, 105, 122, 101>>

\* the code units of 'getBalance'
nameGetBalance ==
    <<103, 101, 116, 66, 97, 108, 97, 110, 99, 101>>

\* one console.log / console.error line: the message and the text appended
LogLine(msg, text) == [msg |-> msg, text |-> text]

\* an uncaught TypeError: reading a property of undefined
Threw == "throw"

RECURSIVE FieldLoop(_, _, _, _)
\* for (const fieldSection of fieldSections) { ... } ; a TypeError leaves the
\* loop with the fields pushed so far
FieldLoop(fieldSections, methodName, fields, logs) ==
    IF fieldSections = <<>>
    THEN [threw |-> FALSE, fields |-> fields, logs |-> logs]
    ELSE LET fieldSection == Head(fieldSections)
         IN IF fieldSection.name = None \/ fieldSection.code = None
            THEN [threw |-> TRUE, fields |-> fields, logs |-> logs]
            ELSE LET name == Sanitize(fieldSection.name[1])
                     type == fieldSection.code[1]
                     flags == fieldSection.flags
                     required == Len(flags) > 0 /\ flags[1] = txtRequired
                 IN IF name = <<>> \/ type = <<>>
                    THEN FieldLoop(Tail(fieldSections), methodName, fields,
                             Append(logs, LogLine("Name or type not found for method: ",
                                                  methodName)))
                    ELSE FieldLoop(Tail(fieldSections), methodName,
                             Append(fields, [name |-> name, type |-> type,
                                             required |-> required]),
                             logs)

\* try { if (type === "object") { ...field loop... } } catch (e) { console.error }
ExtractFields(type, fieldSections, methodName) ==
    IF type # txtObject
    THEN [fields |-> <<>>, logs |-> <<>>]
    ELSE LET r == FieldLoop(fieldSections, methodName, <<>>, <<>>)
         IN [fields |-> r.fields,
             logs |-> IF r.threw
                      THEN Append(r.logs,
                               LogLine("Error parsing fields for method: ", methodName))
                      ELSE r.logs]

\* param.getElementsByClassName("FlagItem_qZK_"): every descendant flag
DescendantFlags(param) ==
    param.ownFlags \o Flatten([k \in 1..Len(param.fields) |-> param.fields[k].flags])

\* One iteration of the parameter loop: "throw" (a TypeError leaves main),
\* "skip" (continue) or "push" (params.push).
ExtractParam(param, methodName) ==
    IF param.header = None \/ param.header[1] = None
    THEN [kind |-> Threw, logs |-> <<>>]
    ELSE LET type == Sanitize(Trim(param.header[1][1]))
             f == ExtractFields(type, param.fields, methodName)
             flags == DescendantFlags(param)
         IN IF flags = <<>>
            THEN [kind |-> Threw, logs |-> f.logs]
            ELSE IF type = <<>>
            THEN [kind |-> "skip",
                  logs |-> Append(f.logs,
                      LogLine("Type not found for method: ", methodName))]
            ELSE [kind |-> "push",
                  logs |-> f.logs,
                  param |-> [type |-> type,
                             required |-> (flags[1] = txtRequired),
                             fields |-> f.fields]]

(***************************************************************************)
(* The parameter extractor on its own, on every parameter node built from  *)
(* the headers, flags and field nodes below.                               *)
(***************************************************************************)
FieldNodes ==
    {[name |-> Some(txtCommitment), code |-> Some(txtString), flags |-> <<txtRequired>>],
     [name |-> Some(txtEncoding), code |-> Some(txtString), flags |-> <<txtOptional>>],
     [name |-> Some(txtLimit), code |-> Some(txtUsize), flags |-> <<>>],
     [name |-> None, code |-> Some(txtString), flags |-> <<>>],
     [name |-> Some(txtLimit), code |-> None, flags |-> <<txtRequired>>],
     [name |-> Some(<<>>), code |-> Some(txtString), flags |-> <<>>],
     [name |-> Some(<<8203>>), code |-> Some(txtUsize), flags |-> <<>>],
     [name |-> Some(txtEncoding), code |-> Some(<<>>), flags |-> <<>>]}

Headers ==
    {None, Some(None), Some(Some(txtObject)), Some(Some(txtObjectPadded)),
     Some(Some(txtString)), Some(Some(<<>>))}

OwnFlags == {<<>>, <<txtRequired>>, <<txtOptional>>}

ParamNodes ==
    [header : Headers, ownFlags : OwnFlags, fields : SeqUpTo(FieldNodes, MaxFields)]

InitExtract ==
    /\ variant \in {"A", "B"}
    /\ arg \in ParamNodes
    /\ ret = None
    /\ PipelineIdle

\* one iteration of for (const param of paramsSection)
ApplyExtractParam ==
    /\ pc = "idle"
    /\ ret = None
    /\ ret' = Some(ExtractParam(arg, nameGetBalance))
    /\ UNCHANGED <<pipelineVars, arg>>

NextExtract == ApplyExtractParam

SpecExtract == InitExtract /\ [][NextExtract]_vars

\* the declared type of a parameter node, when its header and <code> exist
DeclaredType(param) ==
    IF param.header = None \/ param.header[1] = None THEN None
    ELSE Some(Sanitize(Trim(param.header[1][1])))

\* a field node with a non-empty name and a non-empty type
WellFormedField(f) ==
    /\ f.name # None
    /\ Sanitize(f.name[1]) # <<>>
    /\ f.code # None
    /\ f.code[1] # <<>>

\* the FieldSpec a well-formed field node stands for
FieldSpecOf(f) ==
    [name |-> Sanitize(f.name[1]),
     type |-> f.code[1],
     required |-> (Len(f.flags) > 0 /\ f.flags[1] = txtRequired)]

RECURSIVE WellFormedFields(_)
\* the FieldSpecs of the well-formed field nodes, in document order
WellFormedFields(fs) ==
    IF fs = <<>> THEN <<>>
    ELSE IF WellFormedField(Head(fs))
         THEN <<FieldSpecOf(Head(fs))>> \o WellFormedFields(Tail(fs))
         ELSE WellFormedFields(Tail(fs))

\* C5: for every object-typed parameter (one that carries a flag indicator,
\* so that reading its required flag succeeds), the ParamSpec is produced and
\* its fields are exactly the well-formed field nodes in document order: a
\* malformed field, a missing name or type element included, is omitted
\* without aborting its siblings or the parameter.
C5_FieldsAreTheWellFormedOnes ==
    (/\ ret # None
     /\ DeclaredType(arg) = Some(txtObject)
     /\ DescendantFlags(arg) # <<>>)
    => /\ ret[1].kind = "push"
       /\ ret[1].param.fields = WellFormedFields(arg.fields)

\* C6: for every parameter node (here: with a non-empty type and no field
\* nodes), a ParamSpec is produced whose required is true exactly when the
\* node has a flag indicator with the text "required"; a node with no flag
\* indicator is not an error and yields required = false.
C6_RequiredIffFlagged ==
    (/\ ret # None
     /\ DeclaredType(arg) \notin {None, Some(<<>>)}
     /\ arg.fields = <<>>)
    => /\ ret[1].kind = "push"
       /\ ret[1].param.required = (\E k \in 1..Len(arg.ownFlags) :
                                       arg.ownFlags[k] = txtRequired)

(***************************************************************************)
(* JSON.parse, as a recursive-descent reader of the JSON grammar           *)
(* (ECMA-404).  A reader is given the text and a 1-based position and      *)
(* returns [ok, pos]: whether a construct starts there and the position    *)
(* after it.  The object reader also returns the span of the value of the  *)
(* last member named "params", which is what `.params` reads.              *)
(***************************************************************************)
\* the code units of 'simulateTransaction'
txtSimulateTransaction ==
    <<115, 105, 109, 117, 108, 97, 116, 101, 84, 114, 97, 110, 115, 97, 99, 116, 105, 111, 110>>

\* the code units of 'params'
txtParams ==
    <<112, 97, 114, 97, 109, 115>>

\* the code units of 'true'
txtTrue ==
    <<116, 114, 117, 101>>

\* the code units of 'false'
txtFalse ==
    <<102, 97, 108, 115, 101>>

\* the code units of 'null'
txtNull ==
    <<110, 117, 108, 108>>

\* the code unit at 1-based position k, or -1 past the end
At(s, k) == IF k >= 1 /\ k <= Len(s) THEN s[k] ELSE -1

\* JSON whitespace: space, tab, line feed, carriage return
IsJsonWs(c) == c \in {32, 9, 10, 13}

IsDigit(c) == c \in 48..57

IsHex(c) == c \in 48..57 \/ c \in 65..70 \/ c \in 97..102

ParseFail == [ok |-> FALSE, pos |-> 0, params |-> None]

ParseOk(pos) == [ok |-> TRUE, pos |-> pos, params |-> None]

RECURSIVE SkipWs(_, _)
SkipWs(s, k) == IF IsJsonWs(At(s, k)) THEN SkipWs(s, k + 1) ELSE k

RECURSIVE SkipDigits(_, _)
SkipDigits(s, k) == IF IsDigit(At(s, k)) THEN SkipDigits(s, k + 1) ELSE k

RECURSIVE ScanString(_, _)
\* the characters of a string after its opening quote, up to the closing one
ScanString(s, k) ==
    LET c == At(s, k)
    IN IF c = 34 THEN ParseOk(k + 1)
       ELSE IF c < 32 THEN ParseFail
       ELSE IF c = 92
            THEN IF At(s, k + 1) \in {34, 92, 47, 98, 102, 110, 114, 116}
                 THEN ScanString(s, k + 2)
                 ELSE IF /\ At(s, k + 1) = 117
                         /\ \A d \in 2..5 : IsHex(At(s, k + d))
                      THEN ScanString(s, k + 6)
                      ELSE ParseFail
       ELSE ScanString(s, k + 1)

\* number: -? (0 | [1-9][0-9]*) (. [0-9]+)? ([eE] [+-]? [0-9]+)?
ParseNumber(s, k) ==
    LET i0 == IF At(s, k) = 45 THEN k + 1 ELSE k
        i1 == IF At(s, i0) = 48 THEN i0 + 1 ELSE SkipDigits(s, i0)
        fracOk == At(s, i1) # 46 \/ IsDigit(At(s, i1 + 1))
        i2 == IF At(s, i1) = 46 THEN SkipDigits(s, i1 + 1) ELSE i1
        hasExp == At(s, i2) \in {69, 101}
        e0 == IF At(s, i2 + 1) \in {43, 45} THEN i2 + 2 ELSE i2 + 1
        i3 == IF hasExp THEN SkipDigits(s, e0) ELSE i2
    IN IF /\ IsDigit(At(s, i0))
          /\ fracOk
          /\ (hasExp => IsDigit(At(s, e0)))
       THEN ParseOk(i3)
       ELSE ParseFail

ParseLiteral(s, k, word) ==
    IF SubSeq(s, k, Min(k + Len(word) - 1, Len(s))) = word
    THEN ParseOk(k + Len(word))
    ELSE ParseFail

RECURSIVE ParseValue(_, _)
RECURSIVE ParseElements(_, _)
RECURSIVE ParseMembers(_, _, _)

\* value: whitespace, then an object, array, string, number or literal
ParseValue(s, k) ==
    Bind(SkipWs(s, k), LAMBDA i :
    Bind(At(s, i), LAMBDA c :
    IF c = 123
    THEN Bind(SkipWs(s, i + 1), LAMBDA j :
         IF At(s, j) = 125 THEN ParseOk(j + 1) ELSE ParseMembers(s, j, None))
    ELSE IF c = 91
    THEN Bind(SkipWs(s, i + 1), LAMBDA j :
         IF At(s, j) = 93 THEN ParseOk(j + 1) ELSE ParseElements(s, j))
    ELSE IF c = 34 THEN ScanString(s, i + 1)
    ELSE IF c = 45 \/ IsDigit(c) THEN ParseNumber(s, i)
    ELSE IF c = 116 THEN ParseLiteral(s, i, txtTrue)
    ELSE IF c = 102 THEN ParseLiteral(s, i, txtFalse)
    ELSE IF c = 110 THEN ParseLiteral(s, i, txtNull)
    ELSE ParseFail))

\* the elements of an array after '[' or ',', up to the closing ']'
ParseElements(s, k) ==
    Bind(ParseValue(s, k), LAMBDA v :
    IF ~v.ok THEN ParseFail
    ELSE Bind(SkipWs(s, v.pos), LAMBDA i :
         IF At(s, i) = 44 THEN ParseElements(s, i + 1)
         ELSE IF At(s, i) = 93 THEN ParseOk(i + 1)
         ELSE ParseFail))

\* the members of an object after '{' or ',', up to the closing '}';
\* found: the span of the value of the last member named "params" so far
ParseMembers(s, k, found) ==
    Bind(SkipWs(s, k), LAMBDA q :
    Bind(IF At(s, q) = 34 THEN ScanString(s, q + 1) ELSE ParseFail, LAMBDA key :
    IF ~key.ok THEN ParseFail
    ELSE Bind(SkipWs(s, key.pos), LAMBDA colon :
    IF At(s, colon) # 58 THEN ParseFail
    ELSE Bind(ParseValue(s, colon + 1), LAMBDA v :
    IF ~v.ok THEN ParseFail
    ELSE Bind(IF SubSeq(s, q + 1, key.pos - 2) = txtParams
              THEN Some(SubSeq(s, SkipWs(s, colon + 1), v.pos - 1))
              ELSE found, LAMBDA now :
         Bind(SkipWs(s, v.pos), LAMBDA i :
         IF At(s, i) = 44 THEN ParseMembers(s, i + 1, now)
         ELSE IF At(s, i) = 125 THEN [ok |-> TRUE, pos |-> i + 1, params |-> now]
         ELSE ParseFail))))))

\* JSON.parse(text): ok is FALSE when it throws a SyntaxError; isNull tells
\* the value null (whose .params is a TypeError); params is the text of the
\* value of the member "params" of an object, None when .params is undefined
JSONParse(text) ==
    Bind(text, LAMBDA t :
    Bind(ParseValue(t, 1), LAMBDA v :
    Bind(SkipWs(t, 1), LAMBDA start :
    IF v.ok /\ SkipWs(t, v.pos) = Len(t) + 1
    THEN [ok |-> TRUE,
          isNull |-> (At(t, start) = 110),
          params |-> v.params,
          value |-> SubSeq(t, start, v.pos - 1)]
    ELSE [ok |-> FALSE, isNull |-> FALSE, params |-> None, value |-> <<>>])))

(***************************************************************************)
(* The sample recoverer.                                                   *)
(***************************************************************************)
\* sampleRequest.slice(sampleRequest.indexOf("{"), -1).trim().replace(/\s/g, "")
\* and the simulateTransaction patch
RequestCandidate(sampleRequest) ==
    Bind(sampleRequest, LAMBDA text :
    Bind(StripWhitespace(Trim(Slice(text, IndexOf(text, 123), -1))),
         LAMBDA jsonString :
    IF Includes(jsonString, txtSimulateTransaction)
    THEN removeAt(Len(jsonString) - 4, jsonString)
    ELSE jsonString))

(***************************************************************************)
(* The body of `for (const methodSection of methodSections)` in main.      *)
(*                                                                         *)
(* A method section (class DocBlock_boPv) is                               *)
(*   h2           : the textContent of its first <h2>, if any;             *)
(*   p            : the textContent of its first <p>, if any;              *)
(*   warning      : the textContent of its first theme-admonition-warning; *)
(*   codeParams   : None without a CodeParams_B82f element, else Some of   *)
(*                  the Parameter_p8dk nodes below the first one;          *)
(*   codeSnippets : None without a CodeSnippets_vVvq element, else Some of *)
(*                  the textContents of its codeBlockLines_e6Vv elements.  *)
(***************************************************************************)
\* the code units of 'deprecated'
txtDeprecated ==
    <<100, 101, 112, 114, 101, 99, 97, 116, 101, 100>>

\* the code units of 'getAccountInfo'
nameGetAccountInfo ==
    <<103, 101, 116, 65, 99, 99, 111, 117, 110, 116, 73, 110, 102, 111>>

\* the code units of 'getBlock'
nameGetBlock ==
    <<103, 101, 116, 66, 108, 111, 99, 107>>

\* the code units of 'getBlockHeight'
nameGetBlockHeight ==
    <<103, 101, 116, 66, 108, 111, 99, 107, 72, 101, 105, 103, 104, 116>>

\* the code units of 'simulateTransaction'
nameSimulateTransaction ==
    <<115, 105, 109, 117, 108, 97, 116, 101, 84, 114, 97, 110, 115, 97, 99, 116, 105, 111, 110>>

\* the code units of 'getSlot'
nameGetSlot ==
    <<103, 101, 116, 83, 108, 111, 116>>

\* the code units of 'getEpochInfo'
nameGetEpochInfo ==
    <<103, 101, 116, 69, 112, 111, 99, 104, 73, 110, 102, 111>>

\* the code units of 'getFees'
nameGetFees ==
    <<103, 101, 116, 70, 101, 101, 115>>

\* the code units of 'getStakeActivation'
nameGetStakeActivation ==
    <<103, 101, 116, 83, 116, 97, 107, 101, 65, 99, 116, 105, 118, 97, 116, 105, 111, 110>>

\* the code units of 'Returns the value.'
txtDescription ==
    <<82, 101, 116, 117, 114, 110, 115, 32, 116, 104, 101, 32, 118, 97, 108, 117, 101, 46>>

\* the code units of 'DEPRECATED: removed in v2'
txtWarning ==
    <<68, 69, 80, 82, 69, 67, 65, 84, 69, 68, 58, 32, 114, 101, 109, 111, 118, 101, 100, 32, 105, 110, 32, 118, 50>>

\* the code units of 'curl -d \'{"id":1,"params":["abc"]}\''
reqAccount ==
    <<99, 117, 114, 108, 32, 45, 100, 32, 39, 123, 34, 105, 100, 34, 58, 49, 44, 34, 112, 97, 114, 97, 109, 115, 34, 58, 91, 34, 97, 98, 99, 34, 93, 125, 39>>

\* the code units of 'curl -d \' {"params": [430, {"encoding":"json"}]} \''
reqBlock ==
    <<99, 117, 114, 108, 32, 45, 100, 32, 39, 32, 123, 34, 112, 97, 114, 97, 109, 115, 34, 58, 32, 91, 52, 51, 48, 44, 32, 123, 34, 101, 110, 99, 111, 100, 105, 110, 103, 34, 58, 34, 106, 115, 111, 110, 34, 125, 93, 125, 32, 39>>

\* the code units of 'curl -d \'{"id":1}\''
reqHeight ==
    <<99, 117, 114, 108, 32, 45, 100, 32, 39, 123, 34, 105, 100, 34, 58, 49, 125, 39>>

\* the code units of 'curl -d \'{"method":"simulateTransaction","params":["AQ",{"encoding":"base64",}]}\''
reqSimulate ==
    <<99, 117, 114, 108, 32, 45, 100, 32, 39, 123, 34, 109, 101, 116, 104, 111, 100, 34, 58, 34, 115, 105, 109, 117, 108, 97, 116, 101, 84, 114, 97, 110, 115, 97, 99, 116, 105, 111, 110, 34, 44, 34, 112, 97, 114, 97, 109, 115, 34, 58, 91, 34, 65, 81, 34, 44, 123, 34, 101, 110, 99, 111, 100, 105, 110, 103, 34, 58, 34, 98, 97, 115, 101, 54, 52, 34, 44, 125, 93, 125, 39>>

\* the code units of 'curl -d \'{"params":[1,}\''
reqBroken ==
    <<99, 117, 114, 108, 32, 45, 100, 32, 39, 123, 34, 112, 97, 114, 97, 109, 115, 34, 58, 91, 49, 44, 125, 39>>

\* the code units of '{"result": 1}'
respOk ==
    <<123, 34, 114, 101, 115, 117, 108, 116, 34, 58, 32, 49, 125>>

\* the code units of '{"result": }'
respBroken ==
    <<123, 34, 114, 101, 115, 117, 108, 116, 34, 58, 32, 125>>

RECURSIVE ParamLoop(_, _, _, _)
\* for (const param of paramsSection) { ... }
ParamLoop(paramsSection, methodName, params, logs) ==
    IF paramsSection = <<>>
    THEN [kind |-> "done", params |-> params, logs |-> logs]
    ELSE LET r == ExtractParam(Head(paramsSection), methodName)
         IN IF r.kind = Threw
            THEN [kind |-> Threw, params |-> params, logs |-> logs \o r.logs]
            ELSE ParamLoop(Tail(paramsSection), methodName,
                     IF r.kind = "push" THEN Append(params, r.param) ELSE params,
                     logs \o r.logs)

\* the aggregation with a new bucket created empty
Aggregate_NewBucketEmpty(v, agg, method) ==
    LET category == method.category
        known == category \in DOMAIN agg.categoryMap
    IN [methods |-> Append(agg.methods, method),
        categoryMap |->
            IF known
            THEN [agg.categoryMap EXCEPT ![category] = Append(@, method)]
            ELSE (category :> <<>>) @@ agg.categoryMap,
        categoryNameMap |->
            IF v = "A" THEN agg.categoryNameMap
            ELSE IF known
            THEN [agg.categoryNameMap EXCEPT ![category] = Append(@, method.name)]
            ELSE (category :> <<method.name>>) @@ agg.categoryNameMap]

\* the aggregation with unshift in place of push on the flat list
Aggregate_Unshift(v, agg, method) ==
    LET category == method.category
        known == category \in DOMAIN agg.categoryMap
    IN [methods |-> <<method>> \o agg.methods,
        categoryMap |->
            IF known
            THEN [agg.categoryMap EXCEPT ![category] = Append(@, method)]
            ELSE (category :> <<method>>) @@ agg.categoryMap,
        categoryNameMap |->
            IF v = "A" THEN agg.categoryNameMap
            ELSE IF known
            THEN [agg.categoryNameMap EXCEPT ![category] = Append(@, method.name)]
            ELSE (category :> <<method.name>>) @@ agg.categoryNameMap]

\* if (categoryMap[category]) { ...push } else { ...= [method] }; methods.push(method)
\* (variant B keeps categoryNameMap beside categoryMap)
Aggregate(v, agg, method) ==
    LET category == method.category
        known == category \in DOMAIN agg.categoryMap
    IN [methods |-> Append(agg.methods, method),
        categoryMap |->
            IF known
            THEN [agg.categoryMap EXCEPT ![category] = Append(@, method)]
            ELSE (category :> <<method>>) @@ agg.categoryMap,
        categoryNameMap |->
            IF v = "A" THEN agg.categoryNameMap
            ELSE IF known
            THEN [agg.categoryNameMap EXCEPT ![category] = Append(@, method.name)]
            ELSE (category :> <<method.name>>) @@ agg.categoryNameMap]

\* the record built in the try block from what the iteration has gathered
MethodRecord(v, c, request, response) ==
    [name |-> c.methodName,
     description |-> IF v = "A" THEN None ELSE Some(c.methodDescription),
     params |-> c.params,
     sampleBody |-> [params |-> request.params],
     sampleResponse |-> IF v = "A" THEN None ELSE Some(response.value),
     category |-> c.category,
     deprecated |-> c.deprecated]

\* what console.log prints in the catch block
CatchLine(v, c) ==
    IF v = "A" THEN LogLine("", c.requestJson)
    ELSE LogLine("", c.requestJson \o <<32>> \o c.responseJson)

\* the try block with the record built although a sample did not parse
TryBuild_KeepOnParseError(v, c) ==
    Bind(JSONParse(c.requestJson), LAMBDA request :
    Bind(IF v = "A" THEN request ELSE JSONParse(c.responseJson), LAMBDA response :
    [kind |-> "push", logs |-> <<>>,
     method |-> MethodRecord(v, c, request, response)]))

\* try { JSON.parse ...; build; aggregate } catch (e) { console.log(...) }:
\* "skip" when JSON.parse throws (or .params is read of null), else "push"
TryBuild(v, c) ==
    Bind(JSONParse(c.requestJson), LAMBDA request :
    Bind(IF v = "A" THEN request ELSE JSONParse(c.responseJson), LAMBDA response :
    IF ~request.ok \/ ~response.ok \/ request.isNull
    THEN [kind |-> "skip", logs |-> <<CatchLine(v, c)>>]
    ELSE [kind |-> "push", logs |-> <<>>,
          method |-> MethodRecord(v, c, request, response)]))

\* One iteration of the loop over the method sections: "throw" when a
\* TypeError leaves main, "skip" when the iteration ends without a record
\* (continue, or the catch block), "push" with the record otherwise.
\* `if (!paramsSection)` never holds: paramsSection is an HTMLCollection.
VisitOutcome(v, methodSection) ==
    IF methodSection.h2 = None THEN [kind |-> Threw, logs |-> <<>>]
    ELSE IF v = "B" /\ methodSection.p = None THEN [kind |-> Threw, logs |-> <<>>]
    ELSE IF methodSection.codeParams = None THEN [kind |-> Threw, logs |-> <<>>]
    ELSE
    Bind(Sanitize(methodSection.h2[1]), LAMBDA methodName :
    Bind(ParamLoop(methodSection.codeParams[1], methodName, <<>>, <<>>), LAMBDA loop :
    LET category == getCategory(v, methodName)
        deprecated ==
            IF methodSection.warning = None THEN FALSE
            ELSE Includes(ToLowerCase(methodSection.warning[1]), txtDeprecated)
        blocks == IF methodSection.codeSnippets = None THEN <<>>
                  ELSE methodSection.codeSnippets[1]
        needed == IF v = "A" THEN 1 ELSE 2
        sampleRequest == Sanitize(blocks[1])
        sampleResponse == IF v = "A" THEN <<>> ELSE Sanitize(blocks[2])
        gathered == [methodName |-> methodName,
                     methodDescription |->
                         IF v = "A" THEN <<>> ELSE methodSection.p[1],
                     category |-> category,
                     deprecated |-> deprecated,
                     params |-> loop.params,
                     requestJson |-> RequestCandidate(sampleRequest),
                     responseJson |-> sampleResponse]
    IN IF loop.kind = Threw THEN [kind |-> Threw, logs |-> loop.logs]
       ELSE IF methodSection.codeSnippets = None \/ Len(blocks) < needed
       THEN [kind |-> Threw, logs |-> loop.logs]
       ELSE IF sampleRequest = <<>> \/ (v = "B" /\ sampleResponse = <<>>)
       THEN [kind |-> "skip",
             logs |-> Append(loop.logs,
                 LogLine(IF v = "A" THEN "Sample request not found for method: "
                         ELSE "Sample request/response not found for method: ",
                         methodName))]
       ELSE Bind(gathered, LAMBDA c :
            Bind(TryBuild(v, c), LAMBDA built :
            [built EXCEPT !.logs = loop.logs \o @]))))

(***************************************************************************)
(* The pages fetchPage may return: every sequence of at most MaxSections   *)
(* of the method sections below.                                           *)
(***************************************************************************)
paramString ==
    [header |-> Some(Some(txtString)), ownFlags |-> <<txtRequired>>, fields |-> <<>>]

paramObject ==
    [header |-> Some(Some(txtObjectPadded)),
     ownFlags |-> <<txtOptional>>,
     fields |->
        <<[name |-> Some(txtCommitment), code |-> Some(txtString),
           flags |-> <<txtRequired>>],
          [name |-> Some(txtEncoding), code |-> Some(txtString),
           flags |-> <<txtOptional>>]>>]

\* a section with everything in place
Section(h2, warning, params, request, response) ==
    [h2 |-> h2, p |-> Some(txtDescription), warning |-> warning,
     codeParams |-> Some(params), codeSnippets |-> Some(<<request, response>>)]

secAccountInfo ==
    Section(Some(nameGetAccountInfo), None, <<paramString, paramObject>>,
            reqAccount, respOk)

secBlock ==
    Section(Some(nameGetBlock), Some(txtWarning), <<paramString>>, reqBlock, respOk)

secBlockHeight ==
    Section(Some(nameGetBlockHeight), None, <<>>, reqHeight, respOk)

\* the sample with the trailing comma that the removeAt patch is for
secSimulate ==
    Section(Some(nameSimulateTransaction), None, <<paramString>>, reqSimulate, respOk)

\* no CodeParams_B82f element
secNoParams ==
    [Section(Some(nameGetSlot), None, <<>>, reqHeight, respOk)
        EXCEPT !.codeParams = None]

\* no CodeSnippets_vVvq element
secNoSnippets ==
    [Section(Some(nameGetEpochInfo), None, <<paramString>>, reqHeight, respOk)
        EXCEPT !.codeSnippets = None]

\* the request sample is not JSON
secBadRequest ==
    Section(Some(nameGetFees), None, <<paramString>>, reqBroken, respOk)

\* the response sample is not JSON
secBadResponse ==
    Section(Some(nameGetStakeActivation), None, <<paramString>>, reqAccount,
            respBroken)

\* no <h2>
secNoHeading ==
    Section(None, None, <<paramString>>, reqAccount, respOk)

\* an <h2> whose text is a zero-width space only
secEmptyHeading ==
    Section(Some(<<8203>>), None, <<paramString>>, reqAccount, respOk)

Sections ==
    {secAccountInfo, secBlock, secBlockHeight, secSimulate, secNoParams,
     secNoSnippets, secBadRequest, secBadResponse, secNoHeading, secEmptyHeading}

Pages == SeqUpTo(Sections, MaxSections)

(***************************************************************************)
(* runMain, main and fetchPage.                                            *)
(***************************************************************************)
Init ==
    /\ variant \in {"A", "B"}
    /\ page = <<>>
    /\ fetchOk = FALSE
    /\ pc = "start"
    /\ idx = 0
    /\ methods = <<>>
    /\ categoryMap = <<>>
    /\ categoryNameMap = <<>>
    /\ log = <<>>
    /\ files = <<>>
    /\ exitCode = None
    /\ arg = None
    /\ ret = None

\* fetchPage returns the document, whose method sections are some page of
\* Pages; main goes on to the loop
FetchPageOk ==
    /\ pc = "start"
    /\ fetchOk' = TRUE
    /\ page' \in Pages
    /\ pc' = "loop"
    /\ UNCHANGED <<variant, idx, methods, categoryMap, categoryNameMap, log,
                   files, exitCode, arg, ret>>

\* axios.get or new JSDOM throws: fetchPage logs the error and returns
\* undefined, and main returns at `if (!document) return`
FetchPageFail ==
    /\ pc = "start"
    /\ fetchOk' = FALSE
    /\ log' = Append(log, LogLine("fetch error", <<>>))
    /\ pc' = "resolved"
    /\ UNCHANGED <<variant, page, idx, methods, categoryMap, categoryNameMap,
                   files, exitCode, arg, ret>>

\* the section the loop visits next and what visiting it does
NextSection == page[idx + 1]

NextOutcome == VisitOutcome(variant, NextSection)

InLoop == pc = "loop" /\ idx < Len(page)

\* One iteration of the loop: the record is aggregated ("push"), or the
\* iteration ends at a continue or in the catch block ("skip"), or a
\* TypeError is thrown and main's promise rejects.
VisitMethod ==
    /\ InLoop
    /\ LET outcome == NextOutcome
           agg == Aggregate(variant,
                      [methods |-> methods, categoryMap |-> categoryMap,
                       categoryNameMap |-> categoryNameMap],
                      outcome.method)
       IN /\ log' = log \o outcome.logs
          /\ IF outcome.kind = Threw
             THEN /\ pc' = "rejected"
                  /\ UNCHANGED <<idx, methods, categoryMap, categoryNameMap>>
             ELSE /\ pc' = pc
                  /\ idx' = idx + 1
                  /\ IF outcome.kind = "push"
                     THEN /\ methods' = agg.methods
                          /\ categoryMap' = agg.categoryMap
                          /\ categoryNameMap' = agg.categoryNameMap
                     ELSE UNCHANGED <<methods, categoryMap, categoryNameMap>>
    /\ UNCHANGED <<variant, page, fetchOk, files, exitCode, arg, ret>>

\* after the loop: the writeFileSync calls and the "Found n methods" line
WriteOutput ==
    /\ pc = "loop"
    /\ idx = Len(page)
    /\ files' = IF variant = "A"
                THEN <<[methods |-> methods, categories |-> categoryMap]>>
                ELSE <<[methods |-> methods, categories |-> categoryMap,
                        names |-> categoryNameMap]>>
    /\ log' = Append(log, LogLine("Found methods: ", <<Len(methods)>>))
    /\ pc' = "resolved"
    /\ UNCHANGED <<variant, page, fetchOk, idx, methods, categoryMap,
                   categoryNameMap, exitCode, arg, ret>>

\* runMain: await main() returned; process.exit(0)
ExitZero ==
    /\ pc = "resolved"
    /\ exitCode' = Some(0)
    /\ pc' = "exited"
    /\ UNCHANGED <<variant, page, fetchOk, idx, methods, categoryMap,
                   categoryNameMap, log, files, arg, ret>>

\* runMain: catch (e) { console.error(e); process.exit(1) }
ExitOne ==
    /\ pc = "rejected"
    /\ log' = Append(log, LogLine("TypeError", <<>>))
    /\ exitCode' = Some(1)
    /\ pc' = "exited"
    /\ UNCHANGED <<variant, page, fetchOk, idx, methods, categoryMap,
                   categoryNameMap, files, arg, ret>>

Next ==
    \/ FetchPageOk
    \/ FetchPageFail
    \/ VisitMethod
    \/ WriteOutput
    \/ ExitZero
    \/ ExitOne

Spec == Init /\ [][Next]_vars

(***************************************************************************)
(* Claims about the pipeline.                                              *)
(***************************************************************************)
IsPrefix(s, t) == Len(s) <= Len(t) /\ SubSeq(t, 1, Len(s)) = s

RECURSIVE SumOfLengths(_, _)
\* the sum of the lengths of the buckets of map m at the keys ks
SumOfLengths(m, ks) ==
    IF ks = {} THEN 0
    ELSE LET c == CHOOSE x \in ks : TRUE
         IN Len(m[c]) + SumOfLengths(m, ks \ {c})

\* the records of a list that carry category c, in the list's order
OfCategory(list, c) == SelectSeq(list, LAMBDA m : m.category = c)

NamesOf(list) == [k \in 1..Len(list) |-> list[k].name]

\* VisitOutcome, tabulated once over the variants and the sections of Sections
OutcomeTable == [v \in {"A", "B"}, section \in Sections |-> VisitOutcome(v, section)]

RECURSIVE RecordsOf(_, _)
\* the records of the sections that yield one, in document order
RecordsOf(v, sections) ==
    IF sections = <<>> THEN <<>>
    ELSE LET o == OutcomeTable[v, Head(sections)]
         IN (IF o.kind = "push" THEN <<o.method>> ELSE <<>>)
            \o RecordsOf(v, Tail(sections))

\* a section with everything in place that yields a record
WellFormed(v, section) == OutcomeTable[v, section].kind = "push"

\* a section whose only defect is that its parameter section or its
\* code-samples container is missing
MissingParamsOrSnippets(section) ==
    /\ section.h2 # None
    /\ Sanitize(section.h2[1]) # <<>>
    /\ section.p # None
    /\ section.codeParams = None \/ section.codeSnippets = None
    /\ section.codeParams # None =>
           \A k \in 1..Len(section.codeParams[1]) :
               ExtractParam(section.codeParams[1][k], <<>>).kind # Threw

\* C1: on a page whose sections are well-formed or merely lack their
\* parameter section or code-samples container, the run is not terminated
\* early: it ends with outcome 0, the flat list written holds exactly the
\* records of the well-formed sections (none for a defective one, every later
\* well-formed one included), each of them in its category bucket, and a
\* diagnostic naming each defective method has been logged.
C1_MissingSectionSkippedRunContinues ==
    (/\ pc = "exited"
     /\ fetchOk
     /\ \A k \in 1..Len(page) :
            WellFormed(variant, page[k]) \/ MissingParamsOrSnippets(page[k]))
    => /\ exitCode = Some(0)
       /\ idx = Len(page)
       /\ methods = RecordsOf(variant, page)
       /\ \A k \in 1..Len(methods) :
              /\ methods[k].category \in DOMAIN categoryMap
              /\ methods[k] \in Range(categoryMap[methods[k].category])
       /\ \A k \in 1..Len(page) :
              MissingParamsOrSnippets(page[k]) =>
                  \E j \in 1..Len(log) :
                      /\ log[j].text = Sanitize(page[k].h2[1])
                      /\ log[j].msg # ""

\* the iteration over this section gets as far as JSON.parse: every element
\* read before it exists and the sample texts are not empty
ReachesParse(v, section) ==
    /\ section.h2 # None
    /\ v = "B" => section.p # None
    /\ section.codeParams # None
    /\ \A k \in 1..Len(section.codeParams[1]) :
           LET param == section.codeParams[1][k]
           IN /\ param.header # None
              /\ param.header[1] # None
              /\ DescendantFlags(param) # <<>>
    /\ section.codeSnippets # None
    /\ Len(section.codeSnippets[1]) >= (IF v = "A" THEN 1 ELSE 2)
    /\ Sanitize(section.codeSnippets[1][1]) # <<>>
    /\ v = "B" => Sanitize(section.codeSnippets[1][2]) # <<>>

\* JSON.parse throws on the request candidate or, in variant B, on the
\* response sample
SampleFailsToParse(v, section) ==
    \/ ~JSONParse(RequestCandidate(Sanitize(section.codeSnippets[1][1]))).ok
    \/ v = "B" /\ ~JSONParse(Sanitize(section.codeSnippets[1][2])).ok

C2_Step ==
    (/\ InLoop
     /\ ReachesParse(variant, NextSection)
     /\ SampleFailsToParse(variant, NextSection))
    => /\ methods' = methods
       /\ categoryMap' = categoryMap
       /\ categoryNameMap' = categoryNameMap
       /\ pc' = "loop"
       /\ idx' = idx + 1

\* C2: the visit of a method whose request candidate (or, in variant B, whose
\* response sample) fails to parse leaves the flat list, every category
\* bucket and every category name list exactly as they were, and the loop
\* goes on to the next method section.
C2_ParseFailureAbandonsRecord == [][C2_Step]_vars

\* a page on which a method with an unparseable sample was visited, left the
\* collections alone, and the method after it was recorded
C2_Witness ==
    /\ pc = "exited"
    /\ exitCode = Some(0)
    /\ variant = "B"
    /\ Len(page) = 3
    /\ ReachesParse(variant, page[2])
    /\ ~JSONParse(Sanitize(page[2].codeSnippets[1][2])).ok
    /\ Len(methods) = 2
    /\ methods[2].name = nameGetBlockHeight

\* C3: the bucket lengths sum to the length of the flat list, every record
\* of the flat list is in exactly one bucket, every bucket entry is in the
\* flat list, and a bucket's key is the category field of its records.
C3_AggregationConsistent ==
    /\ SumOfLengths(categoryMap, DOMAIN categoryMap) = Len(methods)
    /\ \A k \in 1..Len(methods) :
           Cardinality({c \in DOMAIN categoryMap :
                           methods[k] \in Range(categoryMap[c])}) = 1
    /\ \A c \in DOMAIN categoryMap :
           \A j \in 1..Len(categoryMap[c]) :
               /\ categoryMap[c][j].category = c
               /\ categoryMap[c][j] \in Range(methods)

\* three records in two buckets, written out
C3_Witness ==
    /\ pc = "exited"
    /\ Len(methods) = 3
    /\ Cardinality(DOMAIN categoryMap) = 2
    /\ \E c \in DOMAIN categoryMap : Len(categoryMap[c]) = 2

\* C4: when fetchPage fails the run ends with a non-zero outcome, and a
\* failed fetch is the only thing that ends a run before the loop has passed
\* over every method section.
C4_FetchFailureIsTheOnlyAbort ==
    pc = "exited" =>
        /\ ~fetchOk => exitCode # Some(0)
        /\ fetchOk => idx = Len(page)

\* a section whose heading is missing or empty after sanitizing, and which
\* is otherwise in order
NoNameOnly(v, section) ==
    /\ section.h2 = None \/ Sanitize(section.h2[1]) = <<>>
    /\ VisitOutcome(v, [section EXCEPT !.h2 = Some(nameGetBlock)]).kind = "push"

\* C7: every record of the flat list and of the buckets has a non-empty
\* name, and a section from whose heading no name can be extracted is
\* skipped without crashing the run.
C7_NamesNonEmptyNoCrash ==
    /\ \A k \in 1..Len(methods) : methods[k].name # <<>>
    /\ \A c \in DOMAIN categoryMap :
           \A j \in 1..Len(categoryMap[c]) : categoryMap[c][j].name # <<>>
    /\ (/\ pc = "exited"
        /\ fetchOk
        /\ \A k \in 1..Len(page) :
               WellFormed(variant, page[k]) \/ NoNameOnly(variant, page[k]))
       => exitCode = Some(0)

C10_State ==
    /\ methods = RecordsOf(variant, SubSeq(page, 1, idx))
    /\ DOMAIN categoryMap = {methods[k].category : k \in 1..Len(methods)}
    /\ \A c \in DOMAIN categoryMap : categoryMap[c] = OfCategory(methods, c)
    /\ variant = "B" =>
           /\ DOMAIN categoryNameMap = DOMAIN categoryMap
           /\ \A c \in DOMAIN categoryMap :
                  categoryNameMap[c] = NamesOf(OfCategory(methods, c))

C10_Step ==
    /\ IsPrefix(methods, methods')
    /\ \A c \in DOMAIN categoryMap :
           /\ c \in DOMAIN categoryMap'
           /\ IsPrefix(categoryMap[c], categoryMap'[c])
    /\ \A c \in DOMAIN categoryNameMap :
           /\ c \in DOMAIN categoryNameMap'
           /\ IsPrefix(categoryNameMap[c], categoryNameMap'[c])

\* C10: at every step the flat list, each bucket and each name list before
\* the step is a prefix of the one after it; at every state the flat list
\* holds the records built so far in document order, and each bucket (each
\* name list, as the names of its bucket's records) is the flat list
\* filtered to its category, in the same order.
C10_AdditiveOrderPreserving == [][C10_Step]_vars /\ []C10_State

\* two different records of one category around a skipped section and a
\* record of another category
C10_Witness ==
    /\ variant = "B"
    /\ pc = "loop"
    /\ idx = 3
    /\ OutcomeTable[variant, page[2]].kind = "skip"
    /\ Len(methods) = 2
    /\ methods[1] # methods[2]
    /\ methods[1].category = methods[2].category

=============================================================================
